---- MODULE Spec2Model ----
(***************************************************************************)
(* Model of libs/svg.js: the Svg document container (setElements,          *)
(* addElement, toJSON, toXml, findByType, findById), the applyMatrix       *)
(* pipeline built on async.each, the save/savePng adapters and the         *)
(* construction entry points.                                              *)
(***************************************************************************)
EXTENDS Integers, Sequences, FiniteSets, TLC

VARIABLES
    elements,     \* this.elements of the document under study
    ret,          \* record of the last document operation and what it returned
    apPc,         \* applyMatrix: "idle", "dispatch" (inside async.each's loop),
                  \*   "returned" (the call returned), "thrown" (the call threw)
    apArg,        \* applyMatrix: the matrix argument
    apBase,       \* applyMatrix: the local applyMatrix (base matrix)
    apNext,       \* applyMatrix: index of the next element async.each hands out
    apSt,         \* applyMatrix: per element "new", "bbox" (getBBox pending),
                  \*   "apply" (elem.applyMatrix pending), "done", "failed"
    apHanded,     \* applyMatrix: the matrix handed to each element
    apOut,        \* applyMatrix: svg.elements of the new document
    apCompleted,  \* applyMatrix: async.each's completed counter
    apCalls,      \* applyMatrix: documents delivered to callback, in call order
    apUncaught,   \* applyMatrix: elements whose failure was raised in a later tick
    apFired,      \* applyMatrix: the elements whose elem.applyMatrix callback
                  \*   has fired, in firing order (history)
    apCaller,     \* applyMatrix: current values of the Matrix objects the
                  \*   caller passed in (one for a Matrix, the entries of a list)
    clock,        \* new Date().getTime()
    svPc,         \* save/savePng: "idle", "write" (fs.writeFile pending),
                  \*   "gm" (gm(file).write pending), "done"
    svOp,         \* save/savePng: the running call (method, params.output, outcomes)
    svCb,         \* save/savePng: invocations of the running call's callback
    svConv,       \* savePng: invocations of gm(file).write of the running call
    svWritten,    \* paths fs.writeFile has written, oldest first
    svCount,      \* number of save/savePng calls made
    ctPc,         \* construction: "idle", "read" (fs.readFile pending),
                  \*   "convert" (SvgParser pending), "done"
    ctIn,         \* construction: entry point and the input it is given
    ctCb,         \* construction: invocations of the callback
    ctThrown,     \* construction: an exception reached the caller
    ctUncaught,   \* construction: an exception was raised in a later tick
    ctParsed,     \* construction: parser.parseString or JSON.parse was called
    heap,         \* ownership: the Array objects, heap[a] is the content of array a
    docs,         \* ownership: the Svg objects, docs[d] is the array that
                  \*   this.elements of document d refers to
    pl,           \* ownership: the applyMatrix call in flight (source array,
                  \*   new document, elements still to call back, counter)
    found         \* ownership: the document findByType returned, 0 before

ownVars == <<heap, docs, pl, found>>
docVars == <<elements, ret, heap, docs, pl, found>>
apVars == <<apPc, apArg, apBase, apNext, apSt, apHanded, apOut, apCompleted,
            apCalls, apUncaught, apFired, apCaller>>
svVars == <<clock, svPc, svOp, svCb, svConv, svWritten, svCount>>
vars == <<elements, ret, apPc, apArg, apBase, apNext, apSt, apHanded, apOut,
          apCompleted, apCalls, apUncaught, apFired, apCaller, clock, svPc, svOp, svCb, svConv,
          svWritten, svCount, ctPc, ctIn, ctCb, ctThrown, ctUncaught, ctParsed,
          heap, docs, pl, found>>
ctVars == <<ctPc, ctIn, ctCb, ctThrown, ctUncaught, ctParsed>>

(***************************************************************************)
(* Bounds                                                                  *)
(***************************************************************************)
\* total number of nodes (top-level elements and group descendants) of a
\* document drawn for the lookup operations
MaxNodes == 4
\* total number of nodes of an array handed to setElements
MaxSetNodes == 1
\* longest element sequence addElement is allowed to build
MaxLen == 3
\* number of elements of a document put through applyMatrix
MaxElems == 3
\* longest array of the ownership specification
MaxOwnLen == 2
\* longest matrix list passed to applyMatrix
MaxList == 2
\* largest reading of the clock
MaxClock == 2
\* number of save/savePng calls made on the document
MaxCalls == 2

(***************************************************************************)
(* The state of each part before it is first used                          *)
(***************************************************************************)
NoMatrix == <<>>

ApIdle ==
    /\ apPc = "idle"
    /\ apArg = [kind |-> "null"]
    /\ apBase = NoMatrix
    /\ apNext = 1
    /\ apSt = <<>>
    /\ apHanded = <<>>
    /\ apOut = <<>>
    /\ apCompleted = 0
    /\ apCalls = <<>>
    /\ apUncaught = {}
    /\ apFired = <<>>
    /\ apCaller = <<>>

NoOp == [method |-> "none"]

NoPipeline == [src |-> 0, res |-> 0, pending |-> {}, completed |-> 0, delivered |-> FALSE]

OwnIdle ==
    /\ heap = <<>>
    /\ docs = <<>>
    /\ pl = NoPipeline
    /\ found = 0

SvIdle ==
    /\ clock = 0
    /\ svPc = "idle"
    /\ svOp = NoOp
    /\ svCb = <<>>
    /\ svConv = <<>>
    /\ svWritten = <<>>
    /\ svCount = 0

CtIdle ==
    /\ ctPc = "idle"
    /\ ctIn = [entry |-> "none"]
    /\ ctCb = <<>>
    /\ ctThrown = FALSE
    /\ ctUncaught = FALSE
    /\ ctParsed = FALSE

(***************************************************************************)
(* Shape elements.  An element is a record                                 *)
(*   uid    : object identity (its path in the tree it was created in)     *)
(*   type   : "rect" or "g"                                                *)
(*   id     : "a" or NoId (the id property is undefined); a lookup only    *)
(*            tells the elements carrying the searched id from the others  *)
(*   childs : the children of a group, <<>> for every other type           *)
(***************************************************************************)
NoId == "undefined"
Ids == {"a"}
\* the ids looked up: one that elements carry, one that none carries
QueryIds == {"a", "b"}
LeafTypes == {"rect"}
Types == LeafTypes \cup {"g"}
Null == [type |-> "null"]

MkElem(t, i, cs) == [uid |-> <<>>, type |-> t, id |-> i, childs |-> cs]

RECURSIVE Forests(_), Trees(_)
\* trees of exactly k nodes; only "g" nodes have children
Trees(k) ==
    IF k = 1 THEN {MkElem(ty, i, <<>>) : ty \in Types, i \in Ids \cup {NoId}}
    ELSE {MkElem("g", i, cs) : i \in Ids \cup {NoId}, cs \in Forests(k - 1)}

\* ordered forests of exactly n nodes
Forests(n) ==
    IF n = 0 THEN {<<>>}
    ELSE UNION {{<<t>> \o f : t \in Trees(k), f \in Forests(n - k)} : k \in 1..n}

RECURSIVE LabelSeq(_, _)
\* give every node its path as object identity
LabelSeq(es, path) ==
    [k \in DOMAIN es |->
        [es[k] EXCEPT !.uid = Append(path, k),
                      !.childs = LabelSeq(es[k].childs, Append(path, k))]]

Docs == UNION {{LabelSeq(f, <<>>) : f \in Forests(n)} : n \in 0..MaxNodes}

SetPool == UNION {{LabelSeq(f, <<>>) : f \in Forests(n)} : n \in 0..MaxSetNodes}
AddPool == {LabelSeq(<<t>>, <<0>>)[1] : t \in Trees(1)}

RECURSIVE NodesOf(_)
\* every element of a tree, at any depth
NodesOf(es) ==
    UNION {{es[k]} \cup NodesOf(es[k].childs) : k \in DOMAIN es}

(***************************************************************************)
(* Group collaborator (libs/objects/g.js is not part of src/): searches    *)
(* its own children recursively.                                           *)
(***************************************************************************)
RECURSIVE GroupFindByTypeEach(_, _, _, _)
GroupFindByTypeEach(childs, type, all, acc) ==
    IF childs = <<>> THEN acc
    ELSE LET elem == Head(childs)
             a1 == IF elem.type = type THEN Append(acc, elem) ELSE acc
             a2 == IF all /\ elem.type = "g"
                   THEN GroupFindByTypeEach(elem.childs, type, all, a1)
                   ELSE a1
         IN GroupFindByTypeEach(Tail(childs), type, all, a2)

\* elem.findByType(type, all).childs
GroupFindByType(g, type, all) == GroupFindByTypeEach(g.childs, type, all, <<>>)

RECURSIVE GroupFindByIdEach(_, _)
GroupFindByIdEach(childs, id) ==
    IF childs = <<>> THEN Null
    ELSE LET elem == Head(childs)
             r == IF elem.id = id THEN elem
                  ELSE IF elem.type = "g" THEN GroupFindByIdEach(elem.childs, id)
                  ELSE Null
         IN IF r # Null THEN r ELSE GroupFindByIdEach(Tail(childs), id)

\* elem.findById(id)
GroupFindById(g, id) == GroupFindByIdEach(g.childs, id)

(***************************************************************************)
(* Svg.prototype.findByType                                                *)
(***************************************************************************)
\* keeps the top-level matches ahead of everything found inside groups
FindByTypeTopFirstStep(svg, elem, type, all) ==
    LET nested == IF all /\ elem.type = "g" THEN GroupFindByType(elem, type, all) ELSE <<>>
        tops   == SelectSeq(svg, LAMBDA e : Len(e.uid) = 1)
        rest   == SelectSeq(svg, LAMBDA e : Len(e.uid) # 1)
    IN (IF elem.type = type THEN Append(tops, elem) ELSE tops) \o rest \o nested

\* descends into groups whatever the all flag says
FindByTypeAlwaysStep(svg, elem, type, all) ==
    LET s1 == IF elem.type = type THEN Append(svg, elem) ELSE svg
    IN IF elem.type = "g"
       THEN s1 \o GroupFindByType(elem, type, TRUE)
       ELSE s1

\* the body of the _.each callback, applied to one element; svg is the
\* element sequence of the new Svg collected so far
FindByTypeStep(svg, elem, type, all) ==
    LET s1 == IF elem.type = type THEN Append(svg, elem) ELSE svg
    IN IF all /\ elem.type = "g"
       THEN s1 \o GroupFindByType(elem, type, all)
       ELSE s1

RECURSIVE FindByTypeEach(_, _, _, _)
FindByTypeEach(elems, type, all, svg) ==
    IF elems = <<>> THEN svg
    ELSE FindByTypeEach(Tail(elems), type, all, FindByTypeStep(svg, Head(elems), type, all))

FindByType(elems, type, all) == FindByTypeEach(elems, type, all, <<>>)

(***************************************************************************)
(* Svg.prototype.findById                                                  *)
(***************************************************************************)
\* keeps the first element found and skips the rest of the loop
FindByIdFirstStep(returnElem, elem, id) ==
    IF returnElem # Null THEN returnElem
    ELSE IF elem.id = id THEN elem
    ELSE IF elem.type = "g" THEN GroupFindById(elem, id)
    ELSE returnElem

\* the body of the _.each callback: no early exit, a group always assigns
FindByIdStep(returnElem, elem, id) ==
    IF elem.id = id THEN elem
    ELSE IF elem.type = "g" THEN GroupFindById(elem, id)
    ELSE returnElem

RECURSIVE FindByIdEach(_, _, _)
FindByIdEach(elems, id, returnElem) ==
    IF elems = <<>> THEN returnElem
    ELSE FindByIdEach(Tail(elems), id, FindByIdStep(returnElem, Head(elems), id))

FindById(elems, id) == FindByIdEach(elems, id, Null)

(***************************************************************************)
(* Matrix collaborator (libs/matrix is not part of src/): a 2D affine      *)
(* transform <<a, b, c, d, e, f>>; add composes the argument onto the      *)
(* receiver in place and returns the receiver, clone copies it,            *)
(* fromElement derives a matrix from an element and its bounding box.      *)
(***************************************************************************)
Identity == <<1, 0, 0, 1, 0, 0>>
Translate(x, y) == <<1, 0, 0, 1, x, y>>
Rotate90 == <<0, 1, -1, 0, 0, 0>>

\* m.add(n): m becomes m x n
MatAdd(m, n) ==
    << m[1] * n[1] + m[3] * n[2],
       m[2] * n[1] + m[4] * n[2],
       m[1] * n[3] + m[3] * n[4],
       m[2] * n[3] + m[4] * n[4],
       m[1] * n[5] + m[3] * n[6] + m[5],
       m[2] * n[5] + m[4] * n[6] + m[6] >>

MatClone(m) == [k \in 1..6 |-> m[k]]

\* elem.getBBox: the bounding box of the element's own geometry
BBoxOf(elem) == [x |-> elem.x, y |-> 2 * elem.x, width |-> 1, height |-> 1]

\* Matrix.fromElement(bbox, elem)
MatFromElement(bbox, elem) ==
    IF elem.type = "rect" THEN MatAdd(Translate(bbox.x, bbox.y), Rotate90)
    ELSE Translate(bbox.x, bbox.y)

\* elem.applyMatrix(matrix, cb): the new element handed to cb; a rect
\* becomes a polygon
ElemApplyMatrix(elem, matrix) ==
    [src |-> elem.uid,
     type |-> IF elem.type = "rect" THEN "polygon" ELSE elem.type,
     matrix |-> matrix]

(***************************************************************************)
(* Svg.prototype.applyMatrix                                               *)
(***************************************************************************)
Mats == {Translate(1, 0), Rotate90}

RECURSIVE SeqsUpTo(_, _)
SeqsUpTo(S, n) ==
    IF n = 0 THEN {<<>>}
    ELSE SeqsUpTo(S, n - 1) \cup {Append(q, x) : q \in {r \in SeqsUpTo(S, n - 1) : Len(r) = n - 1}, x \in S}

\* the values of the matrix argument: null, one Matrix, an Array of them
MatrixArgs ==
    {[kind |-> "null"]}
      \cup {[kind |-> "single", m |-> m] : m \in Mats}
      \cup {[kind |-> "list", ms |-> ms] : ms \in SeqsUpTo(Mats, MaxList)}

\* composes the accumulated matrix onto the list entry instead
BaseAddReversed(applyMatrix, mat) == MatAdd(mat, applyMatrix)

\* applyMatrix.add(mat), one round of the _.each over the list
BaseAdd(applyMatrix, mat) == MatAdd(applyMatrix, mat)

RECURSIVE BaseEach(_, _)
BaseEach(matrix, applyMatrix) ==
    IF matrix = <<>> THEN applyMatrix
    ELSE BaseEach(Tail(matrix), BaseAdd(applyMatrix, Head(matrix)))

\* lines 145-154: the base matrix built from the argument
BaseMatrix(arg) ==
    IF arg.kind = "null" THEN Identity
    ELSE IF arg.kind = "list" THEN BaseEach(arg.ms, Identity)
    ELSE arg.m

\* the Matrix objects of the caller that the argument refers to
CallerMatrices(arg) ==
    IF arg.kind = "null" THEN <<>>
    ELSE IF arg.kind = "list" THEN arg.ms
    ELSE <<arg.m>>

\* add() is called on the base matrix itself, no clone is taken
BaseAfterNoClone(base, elem) == MatAdd(base, MatFromElement(BBoxOf(elem), elem))

\* the element's matrix is assigned to the base matrix
BaseAfterDerived(base, elem) == MatFromElement(BBoxOf(elem), elem)

\* lines 158-159: the object held in applyMatrix after one element's matrix
\* is derived; add() changes its receiver, and the receiver is the clone
BaseAfter(base, elem) == base

\* lines 158-159: the matrix handed to elem.applyMatrix
HandedMatrix(base, elem) ==
    MatAdd(MatClone(base), MatFromElement(BBoxOf(elem), elem))

\* puts the new element at the position its source has in the input
RECURSIVE ResultAddInOrder(_, _)
ResultAddInOrder(svgElements, e) ==
    IF svgElements = <<>> THEN <<e>>
    ELSE IF e.src[1] < Head(svgElements).src[1] THEN <<e>> \o svgElements
    ELSE <<Head(svgElements)>> \o ResultAddInOrder(Tail(svgElements), e)

\* line 161: svg.addElement(e), a push onto the new document's elements
ResultAdd(svgElements, e) == Append(svgElements, e)

\* async.each's test in done(): completed >= arr.length
EachDoneEarly(completed, n) == completed >= n - 1

EachDone(completed, n) == completed >= n

ApElem(k, t) == [uid |-> <<k>>, type |-> t, id |-> NoId, childs |-> <<>>, x |-> k]

ApDocs ==
    UNION {{[k \in 1..n |-> ApElem(k, ts[k])] : ts \in [1..n -> {"rect", "circle"}]}
           : n \in 0..MaxElems}

InitApply ==
    /\ elements \in ApDocs
    /\ ret = [op |-> "none"]
    /\ ApIdle
    /\ SvIdle
    /\ CtIdle
    /\ OwnIdle

\* applyMatrix(matrix, callback) up to the start of async.each; an empty
\* array makes async.each call its final callback at once
ApplyMatrixCall(arg) ==
    /\ apPc = "idle"
    /\ apArg' = arg
    /\ apBase' = BaseMatrix(arg)
    /\ apCaller' = CallerMatrices(arg)
    /\ apSt' = [k \in DOMAIN elements |-> "new"]
    /\ apHanded' = [k \in DOMAIN elements |-> NoMatrix]
    /\ IF Len(elements) = 0
       THEN apPc' = "returned" /\ apCalls' = Append(apCalls, apOut)
       ELSE apPc' = "dispatch" /\ apCalls' = apCalls
    /\ UNCHANGED <<docVars, svVars, ctVars, apNext, apOut, apCompleted, apUncaught,
                   apFired>>

\* async.each calls the iterator for the next element: elem.getBBox(...)
Dispatch ==
    /\ apPc = "dispatch"
    /\ apNext <= Len(elements)
    /\ apSt' = [apSt EXCEPT ![apNext] = "bbox"]
    /\ apNext' = apNext + 1
    /\ UNCHANGED <<docVars, svVars, ctVars, apPc, apArg, apBase, apHanded, apOut, apCompleted,
                   apCalls, apUncaught, apFired, apCaller>>

\* async.each, and with it applyMatrix, returns to the caller
Return ==
    /\ apPc = "dispatch"
    /\ apNext > Len(elements)
    /\ apPc' = "returned"
    /\ UNCHANGED <<docVars, svVars, ctVars, apArg, apBase, apNext, apSt, apHanded, apOut,
                   apCompleted, apCalls, apUncaught, apFired, apCaller>>

\* a collaborator of element i may run now: synchronously inside the
\* iterator call of element i, or in a later tick once the call stack of
\* applyMatrix is gone
InIterator(i) == apPc = "dispatch" /\ apNext = i + 1
LaterTick == apPc \in {"returned", "thrown"}

\* getBBox calls back: clone, add, elem.applyMatrix(matrix, ...)
GetBBoxCallback(i) ==
    /\ apPc # "idle"
    /\ apSt[i] = "bbox"
    /\ InIterator(i) \/ LaterTick
    /\ apHanded' = [apHanded EXCEPT ![i] = HandedMatrix(apBase, elements[i])]
    /\ apBase' = BaseAfter(apBase, elements[i])
    \* line 152: for a single Matrix, applyMatrix is the caller's own object
    /\ apCaller' = IF apArg.kind = "single" THEN <<apBase'>> ELSE apCaller
    /\ apSt' = [apSt EXCEPT ![i] = "apply"]
    /\ UNCHANGED <<docVars, svVars, ctVars, apPc, apArg, apNext, apOut, apCompleted,
                   apCalls, apUncaught, apFired>>

\* elem.applyMatrix calls back: svg.addElement(e); c(); and done() calls
\* the final callback once the counter reaches arr.length
ApplyCallback(i) ==
    /\ apPc # "idle"
    /\ apSt[i] = "apply"
    /\ InIterator(i) \/ LaterTick
    /\ apSt' = [apSt EXCEPT ![i] = "done"]
    /\ apOut' = ResultAdd(apOut, ElemApplyMatrix(elements[i], apHanded[i]))
    /\ apFired' = Append(apFired, i)
    /\ apCompleted' = apCompleted + 1
    /\ apCalls' = IF EachDone(apCompleted', Len(elements))
                  THEN Append(apCalls, apOut')
                  ELSE apCalls
    /\ UNCHANGED <<docVars, svVars, ctVars, apPc, apArg, apBase, apNext, apHanded, apUncaught,
                   apCaller>>

\* getBBox or elem.applyMatrix of element i throws while the iterator call
\* of element i is on the stack: the exception leaves async.each and
\* applyMatrix, the remaining elements are never handed out
FailInIterator(i) ==
    /\ apPc # "idle"
    /\ apSt[i] \in {"bbox", "apply"}
    /\ InIterator(i)
    /\ apSt' = [apSt EXCEPT ![i] = "failed"]
    /\ apPc' = "thrown"
    /\ UNCHANGED <<docVars, svVars, ctVars, apArg, apBase, apNext, apHanded, apOut, apCompleted,
                   apCalls, apUncaught, apFired, apCaller>>

\* getBBox or elem.applyMatrix of element i fails in a later tick: nothing
\* of applyMatrix is on the stack, c is never called for the element
FailLater(i) ==
    /\ apPc # "idle"
    /\ apSt[i] \in {"bbox", "apply"}
    /\ LaterTick
    /\ apSt' = [apSt EXCEPT ![i] = "failed"]
    /\ apUncaught' = apUncaught \cup {i}
    /\ UNCHANGED <<docVars, svVars, ctVars, apPc, apArg, apBase, apNext, apHanded, apOut,
                   apCompleted, apCalls, apFired, apCaller>>

NextApply ==
    \/ \E arg \in MatrixArgs : ApplyMatrixCall(arg)
    \/ Dispatch
    \/ Return
    \/ \E i \in DOMAIN elements : GetBBoxCallback(i)
    \/ \E i \in DOMAIN elements : ApplyCallback(i)
    \/ \E i \in DOMAIN elements : FailInIterator(i)
    \/ \E i \in DOMAIN elements : FailLater(i)

SpecApply == InitApply /\ [][NextApply]_vars

(***************************************************************************)
(* Svg.prototype.save and Svg.prototype.savePng                            *)
(***************************************************************************)
NoErr == "null"
NoPath == <<>>
WriteErrors == {"EACCES", "ENOSPC"}
GmErrors == {"convert failed"}

\* '/tmp/export_' + new Date().getTime() + ext
DefaultPath(time, ext) == <<"/tmp/export_", time, ext>>
UserPath(ext) == <<"out", 0, ext>>

\* the params objects: {} or {output: ...}
NoParams == [has |-> FALSE, output |-> NoPath]
SaveParams == {NoParams, [has |-> TRUE, output |-> UserPath(".svg")]}
PngParams == {NoParams, [has |-> TRUE, output |-> UserPath(".png")]}

\* _.extend({}, defOpts, params).output
ExtendOutput(defOutput, params) == IF params.has THEN params.output ELSE defOutput

\* fs.writeFile's callback in save (lines 183-189): what save hands to
\* its callback
SaveWritten(err, output) ==
    IF err # NoErr THEN [err |-> err, path |-> NoPath]
    ELSE [err |-> NoErr, path |-> output]

\* goes on to the conversion although the save failed
PngAfterSaveNoReturn(err, file, output) ==
    [cb   |-> IF err # NoErr THEN <<[err |-> err, path |-> NoPath]>> ELSE <<>>,
     conv |-> <<[in |-> file, out |-> output]>>]

\* save's callback in savePng (lines 205-211): the callback invocations
\* and the conversions it makes
PngAfterSave(err, file, output) ==
    IF err # NoErr
    THEN [cb |-> <<[err |-> err, path |-> NoPath]>>, conv |-> <<>>]
    ELSE [cb |-> <<>>, conv |-> <<[in |-> file, out |-> output]>>]

\* gm(file).write's callback in savePng (lines 211-218)
PngAfterGm(err, output) ==
    IF err # NoErr THEN [err |-> err, path |-> NoPath]
    ELSE [err |-> NoErr, path |-> output]

InitSave ==
    /\ elements = <<>>
    /\ ret = [op |-> "none"]
    /\ ApIdle
    /\ SvIdle
    /\ CtIdle
    /\ OwnIdle

\* the clock advances between any two steps
Tick ==
    /\ clock < MaxClock
    /\ clock' = clock + 1
    /\ UNCHANGED <<docVars, apVars, ctVars, svPc, svOp, svCb, svConv, svWritten, svCount>>

\* save(params, callback): fs.writeFile is started
Save(params) ==
    /\ svPc \in {"idle", "done"}
    /\ svCount < MaxCalls
    /\ svOp' = [method |-> "save",
                output |-> ExtendOutput(DefaultPath(clock, ".svg"), params),
                file   |-> ExtendOutput(DefaultPath(clock, ".svg"), params),
                saveErr |-> "pending", gmErr |-> "none"]
    /\ svPc' = "write"
    /\ svCb' = <<>>
    /\ svConv' = <<>>
    /\ svCount' = svCount + 1
    /\ UNCHANGED <<docVars, apVars, ctVars, clock, svWritten>>

\* savePng(params, callback): the default png path is taken, then
\* this.save({}, ...) takes its own default path and starts fs.writeFile;
\* the clock may advance between the two readings
SavePng(params) ==
    /\ svPc \in {"idle", "done"}
    /\ svCount < MaxCalls
    /\ \E time2 \in {clock, clock + 1} :
          /\ time2 <= MaxClock
          /\ clock' = time2
          /\ svOp' = [method |-> "savePng",
                      output |-> ExtendOutput(DefaultPath(clock, ".png"), params),
                      file   |-> ExtendOutput(DefaultPath(time2, ".svg"), NoParams),
                      saveErr |-> "pending", gmErr |-> "none"]
    /\ svPc' = "write"
    /\ svCb' = <<>>
    /\ svConv' = <<>>
    /\ svCount' = svCount + 1
    /\ UNCHANGED <<docVars, apVars, ctVars, svWritten>>

\* fs.writeFile calls back with err (NoErr: the file is written); inside
\* savePng the callback of save runs next
WriteDone(err) ==
    /\ svPc = "write"
    /\ svWritten' = IF err = NoErr THEN Append(svWritten, svOp.file) ELSE svWritten
    /\ svOp' = [svOp EXCEPT !.saveErr = err]
    /\ LET saved == SaveWritten(err, svOp.file)
       IN IF svOp.method = "save"
          THEN /\ svCb' = Append(svCb, saved)
               /\ svConv' = svConv
               /\ svPc' = "done"
          ELSE LET after == PngAfterSave(saved.err, saved.path, svOp.output)
               IN /\ svCb' = svCb \o after.cb
                  /\ svConv' = svConv \o after.conv
                  /\ svPc' = IF after.conv # <<>> THEN "gm" ELSE "done"
    /\ UNCHANGED <<docVars, apVars, ctVars, clock, svCount>>

\* gm(file).write calls back with err (NoErr: the png is written)
GmDone(err) ==
    /\ svPc = "gm"
    /\ svOp' = [svOp EXCEPT !.gmErr = err]
    /\ svCb' = Append(svCb, PngAfterGm(err, svOp.output))
    /\ svPc' = "done"
    /\ UNCHANGED <<docVars, apVars, ctVars, clock, svConv, svWritten, svCount>>

NextSave ==
    \/ Tick
    \/ \E params \in SaveParams : Save(params)
    \/ \E params \in PngParams : SavePng(params)
    \/ \E err \in WriteErrors \cup {NoErr} : WriteDone(err)
    \/ \E err \in GmErrors \cup {NoErr} : GmDone(err)

SpecSave == InitSave /\ [][NextSave]_vars

(***************************************************************************)
(* Construction entry points: fromSvgDocument, fromXmlString,              *)
(* fromJsonFile, fromJsonString, fromJson                                  *)
(***************************************************************************)
ReadErrors == {"ENOENT"}
ConvertErrors == {"unknown shape"}
Texts == {"wellformed", "malformed"}
\* what xml2js does with malformed text when no 'error' listener is
\* registered: the emitted 'error' event is thrown by the EventEmitter, or
\* the parser swallows it and never emits 'end'
XmlFailures == {"throw", "silent"}

\* the input of one call: the outcome of the file read (file entry points),
\* the text, the outcome of the parser collaborator and the elements it
\* delivers
CtInputs(entry) ==
    {[entry |-> entry, read |-> r, text |-> t, convert |-> c, elems |-> es] :
        r \in (IF entry \in {"fromSvgDocument", "fromJsonFile"}
               THEN ReadErrors \cup {NoErr} ELSE {NoErr}),
        t \in (IF entry = "fromJson" THEN {"wellformed"} ELSE Texts),
        c \in ConvertErrors \cup {NoErr},
        es \in SetPool}

\* parser.parseString(string) with only an 'end' listener: "end" when the
\* listener runs and SvgParser.convertXml is started
XmlParse(text, failure) == IF text = "wellformed" THEN "end" ELSE failure

\* JSON.parse(string): returns the value or throws a SyntaxError
JsonParse(text) == IF text = "wellformed" THEN "value" ELSE "throw"

\* the callback of SvgParser.convertXml / convertJson (lines 248-257,
\* 281-290): what the entry point hands to its callback
Converted(err, elems) ==
    IF err # NoErr THEN [err |-> err, svg |-> Null]
    ELSE [err |-> NoErr, svg |-> [elements |-> elems]]

\* the callback of fs.readFile up to the call of the string entry point
\* (lines 230-236, 265-271): the callback invocations it makes
ReadFailed(error) ==
    IF error # NoErr THEN <<[err |-> error, svg |-> Null]>> ELSE <<>>

\* the string entry point is called whatever the read gave
ReadContinuesAlways(error) == TRUE

\* lines 231-235, 266-270: after callback(error) the callback of fs.readFile
\* returns; the string entry point is called only without an error
ReadContinues(error) == error = NoErr

InitCtor ==
    /\ elements = <<>>
    /\ ret = [op |-> "none"]
    /\ ApIdle
    /\ SvIdle
    /\ CtIdle
    /\ OwnIdle

\* the body of fromXmlString or fromJsonString runs, on the caller's stack
\* (direct) or inside the callback of fs.readFile
ParseStep(outcome, direct) ==
    /\ ctPc' = IF outcome \in {"end", "value"} THEN "convert" ELSE "done"
    /\ ctThrown' = (ctThrown \/ (outcome = "throw" /\ direct))
    /\ ctUncaught' = (ctUncaught \/ (outcome = "throw" /\ ~direct))
    /\ ctParsed' = TRUE

FromSvgDocument(input) ==
    /\ ctPc = "idle"
    /\ ctIn' = input
    /\ ctPc' = "read"
    /\ UNCHANGED <<docVars, apVars, svVars, ctCb, ctThrown, ctUncaught, ctParsed>>

FromJsonFile(input) ==
    /\ ctPc = "idle"
    /\ ctIn' = input
    /\ ctPc' = "read"
    /\ UNCHANGED <<docVars, apVars, svVars, ctCb, ctThrown, ctUncaught, ctParsed>>

FromXmlString(input, failure) ==
    /\ ctPc = "idle"
    /\ ctIn' = input
    /\ ParseStep(XmlParse(input.text, failure), TRUE)
    /\ UNCHANGED <<docVars, apVars, svVars, ctCb>>

FromJsonString(input) ==
    /\ ctPc = "idle"
    /\ ctIn' = input
    /\ ParseStep(JsonParse(input.text), TRUE)
    /\ UNCHANGED <<docVars, apVars, svVars, ctCb>>

FromJson(input) ==
    /\ ctPc = "idle"
    /\ ctIn' = input
    /\ ctPc' = "convert"
    /\ UNCHANGED <<docVars, apVars, svVars, ctCb, ctThrown, ctUncaught, ctParsed>>

\* fs.readFile calls back: the error goes to the callback, otherwise the
\* string entry point is called with the data
ReadDone(failure) ==
    /\ ctPc = "read"
    /\ ctCb' = ctCb \o ReadFailed(ctIn.read)
    /\ IF ~ReadContinues(ctIn.read)
       THEN ctPc' = "done" /\ UNCHANGED <<ctThrown, ctUncaught, ctParsed>>
       ELSE IF ctIn.entry = "fromSvgDocument"
            THEN ParseStep(XmlParse(ctIn.text, failure), FALSE)
            ELSE ParseStep(JsonParse(ctIn.text), FALSE)
    /\ UNCHANGED <<docVars, apVars, svVars, ctIn>>

\* SvgParser.convertXml / convertJson calls back
ConvertDone ==
    /\ ctPc = "convert"
    /\ ctCb' = Append(ctCb, Converted(ctIn.convert, ctIn.elems))
    /\ ctPc' = "done"
    /\ UNCHANGED <<docVars, apVars, svVars, ctIn, ctThrown, ctUncaught, ctParsed>>

NextCtor ==
    \/ \E input \in CtInputs("fromSvgDocument") : FromSvgDocument(input)
    \/ \E input \in CtInputs("fromXmlString"), failure \in XmlFailures :
          FromXmlString(input, failure)
    \/ \E input \in CtInputs("fromJsonFile") : FromJsonFile(input)
    \/ \E input \in CtInputs("fromJsonString") : FromJsonString(input)
    \/ \E input \in CtInputs("fromJson") : FromJson(input)
    \/ \E failure \in XmlFailures : ReadDone(failure)
    \/ ConvertDone

SpecCtor == InitCtor /\ [][NextCtor]_vars

(***************************************************************************)
(* File input and output: the file entry points and save, side by side     *)
(***************************************************************************)
NextIO ==
    \/ \E input \in CtInputs("fromSvgDocument") : FromSvgDocument(input)
    \/ \E input \in CtInputs("fromJsonFile") : FromJsonFile(input)
    \/ \E failure \in XmlFailures : ReadDone(failure)
    \/ ConvertDone
    \/ \E params \in SaveParams : Save(params)
    \/ \E err \in WriteErrors \cup {NoErr} : WriteDone(err)

SpecIO == InitCtor /\ [][NextIO]_vars

\* C19: a failed file read in fromSvgDocument or fromJsonFile reaches the
\* callback exactly once, as that error, and nothing is parsed or converted;
\* a failed file write in save reaches the callback exactly once, as that
\* error, and no output path is delivered.
C19_IoFailuresReportedOnce ==
    /\ ctPc = "read" => (ctCb = <<>> /\ ~ctParsed)
    /\ (ctPc \notin {"idle", "read"} /\ ctIn.read # NoErr) =>
          /\ ctPc = "done"
          /\ ctCb = <<[err |-> ctIn.read, svg |-> Null]>>
          /\ ~ctParsed
          /\ ~ctThrown /\ ~ctUncaught
    /\ (svOp.method = "save" /\ svOp.saveErr \in WriteErrors) =>
          /\ svPc = "done"
          /\ svCb = <<[err |-> svOp.saveErr, path |-> NoPath]>>
          /\ svConv = <<>>

\* a file read has failed and a file write of save has failed
C19_Witness ==
    /\ ctPc = "done"
    /\ ctIn.read \in ReadErrors
    /\ svOp.method = "save"
    /\ svOp.saveErr \in WriteErrors

(***************************************************************************)
(* Construction properties                                                 *)
(***************************************************************************)
\* the input makes the construction fail
CtInputFails ==
    \/ ctIn.read # NoErr
    \/ ctIn.text = "malformed"
    \/ ctIn.convert # NoErr

\* C9: every input-triggered failure (unreadable file, malformed XML,
\* malformed JSON, parser-collaborator error) is reported by invoking the
\* callback exactly once with an error, never by throwing to the caller and
\* never by leaving the callback uninvoked.
C9_ErrorsViaCallback ==
    (ctPc = "done" /\ CtInputFails) =>
        /\ Len(ctCb) = 1
        /\ ctCb[1].err # NoErr
        /\ ~ctThrown
        /\ ~ctUncaught

(***************************************************************************)
(* Persistence properties                                                  *)
(***************************************************************************)
\* C10: the conversion is started only after the intermediate SVG save to
\* a default temporary path has succeeded; a failed save means no conversion
\* and the save error at the callback; a failed conversion means the
\* conversion error at the callback; the callback is invoked exactly once
\* per call and gets the output path only when both steps succeeded.
C10_SavePngOrder ==
    svOp.method = "savePng" =>
        /\ svOp.file \in {DefaultPath(t, ".svg") : t \in 0..clock}
        /\ svConv # <<>> =>
              /\ svOp.saveErr = NoErr
              /\ svConv = <<[in |-> svOp.file, out |-> svOp.output]>>
              /\ svWritten # <<>> /\ svWritten[Len(svWritten)] = svOp.file
        /\ svOp.saveErr \in WriteErrors =>
              /\ svConv = <<>>
              /\ svCb = <<[err |-> svOp.saveErr, path |-> NoPath]>>
        /\ svOp.gmErr \in GmErrors =>
              svCb = <<[err |-> svOp.gmErr, path |-> NoPath]>>
        /\ Len(svCb) <= 1
        /\ svPc = "done" <=> Len(svCb) = 1
        /\ (\E k \in DOMAIN svCb : svCb[k].path # NoPath) =>
              /\ svOp.saveErr = NoErr /\ svOp.gmErr = NoErr
              /\ svCb = <<[err |-> NoErr, path |-> svOp.output]>>

\* a savePng call whose save failed has finished
C10_Witness ==
    /\ svOp.method = "savePng"
    /\ svPc = "done"
    /\ svOp.saveErr \in WriteErrors

IsDefaultSvg(path) == path[1] = "/tmp/export_" /\ path[3] = ".svg"

\* C11: any two saves to the default path (no output given) get two distinct
\* default paths, so a later default save never overwrites the file of an
\* earlier one, whatever the clock reads at the two calls.
C11_DistinctDefaultPaths ==
    \A i, j \in DOMAIN svWritten :
        (i < j /\ IsDefaultSvg(svWritten[i]) /\ IsDefaultSvg(svWritten[j]))
            => svWritten[i] # svWritten[j]

(***************************************************************************)
(* Pipeline properties                                                     *)
(***************************************************************************)
Failed == {i \in DOMAIN apSt : apSt[i] = "failed"}
AllDone == \A i \in DOMAIN apSt : apSt[i] = "done"
\* nothing of the call is left to run
Quiescent ==
    /\ LaterTick
    /\ \A i \in DOMAIN apSt : apSt[i] \notin {"bbox", "apply"}

\* C3: if getBBox or elem.applyMatrix fails for one of the elements,
\* applyMatrix reports the failure to its caller and delivers no document
\* to the callback.
C3_FailFast ==
    (Quiescent /\ Failed # {}) => (apPc = "thrown" /\ apCalls = <<>>)

\* C4: the final callback is invoked at most once, only when all N
\* per-element results have been appended, with a document of exactly N
\* elements holding one output per input element; and once all N elements
\* have called back it has been invoked.
C4_Completion ==
    /\ Len(apCalls) <= 1
    /\ Len(apCalls) = 1 =>
          /\ AllDone
          /\ Len(apCalls[1]) = Len(elements)
          /\ \A i \in DOMAIN elements :
                Cardinality({p \in DOMAIN apCalls[1] :
                               apCalls[1][p].src = elements[i].uid}) = 1
    /\ (apPc # "idle" /\ AllDone) => Len(apCalls) = 1

\* all callbacks of a full-size document fired, not in input order
C4_Witness ==
    /\ Len(apCalls) = 1
    /\ Len(elements) = MaxElems
    /\ apCalls[1][1].src # elements[1].uid

RECURSIVE ComposeLeft(_)
\* identity.add(m1).add(m2)...: the last list entry is composed last
ComposeLeft(ms) ==
    IF ms = <<>> THEN Identity
    ELSE MatAdd(ComposeLeft(SubSeq(ms, 1, Len(ms) - 1)), ms[Len(ms)])

\* the single-matrix argument a list or null argument stands for
SingleOf(arg) ==
    IF arg.kind = "list" THEN [kind |-> "single", m |-> ComposeLeft(arg.ms)]
    ELSE IF arg.kind = "null" THEN [kind |-> "single", m |-> Identity]
    ELSE arg

\* C8: a list [m1, m2] hands every element the matrix that the single
\* matrix identity.add(m1).add(m2) hands it (left-to-right fold), and a
\* null base behaves as the identity matrix.
C8_BaseComposition ==
    apPc # "idle" =>
        /\ apBase = BaseMatrix(SingleOf(apArg))
        /\ \A i \in DOMAIN apHanded :
              apHanded[i] # NoMatrix =>
                apHanded[i] = HandedMatrix(BaseMatrix(SingleOf(apArg)), elements[i])

\* a list of two matrices that do not commute reached an element
C8_Witness ==
    /\ apPc # "idle"
    /\ apArg.kind = "list"
    /\ Len(apArg.ms) = 2
    /\ MatAdd(apArg.ms[1], apArg.ms[2]) # MatAdd(apArg.ms[2], apArg.ms[1])
    /\ \E i \in DOMAIN apHanded : apHanded[i] # NoMatrix

\* what elem.applyMatrix hands back for input element i
OutputOf(i) == ElemApplyMatrix(elements[i], apHanded[i])

\* C13: the i-th element of the result is the output of the element whose
\* elem.applyMatrix callback fired i-th, in the growing result and in the
\* delivered document; the result is in input order exactly when the
\* callbacks fired in input order.
C13_CompletionOrder ==
    /\ Len(apOut) = Len(apFired)
    /\ \A p \in DOMAIN apOut : apOut[p] = OutputOf(apFired[p])
    /\ \A k \in DOMAIN apCalls :
          apCalls[k] = [p \in 1..Len(elements) |-> OutputOf(apFired[p])]
    /\ (\A p \in DOMAIN apOut : apOut[p].src = elements[p].uid)
          <=> (\A p \in DOMAIN apFired : apFired[p] = p)

\* a delivered document whose order differs from the input order
C13_Witness ==
    /\ Len(apCalls) = 1
    /\ \E p \in DOMAIN apFired :
          apFired[p] # p /\ apCalls[1][p].src # elements[p].uid

\* base composed with the matrix derived for element i
BaseWithElement(i) ==
    MatAdd(BaseMatrix(apArg), MatFromElement(BBoxOf(elements[i]), elements[i]))

\* C14: the base matrix keeps its value while the elements are processed,
\* and so do the caller's own Matrix object and every matrix of a list; the
\* matrix handed to element k is the base composed with
\* Matrix.fromElement(bbox_k, elem_k) and holds nothing of a sibling.
C14_CloneBeforeMutate ==
    apPc # "idle" =>
        /\ apBase = BaseMatrix(apArg)
        /\ apCaller = CallerMatrices(apArg)
        /\ \A i \in DOMAIN apHanded :
              apHanded[i] # NoMatrix => apHanded[i] = BaseWithElement(i)

\* the caller's own Matrix object served two elements
C14_Witness ==
    /\ apArg.kind = "single"
    /\ Cardinality({i \in DOMAIN apHanded : apHanded[i] # NoMatrix}) >= 2

\* number of positions of q holding x
Count(q, x) == Cardinality({p \in DOMAIN q : q[p] = x})

\* the output of input element i as the inputs alone determine it
ExpectedOutput(i) == ElemApplyMatrix(elements[i], BaseWithElement(i))

\* C15: the multiset of elements delivered depends on the document and the
\* matrix argument only: whatever order the callbacks complete in, the
\* delivered document holds the outputs the inputs determine, each as many
\* times as the inputs determine it, so two runs that differ only in that
\* order deliver the same multiset.
C15_SameMultiset ==
    \A k \in DOMAIN apCalls :
        /\ Len(apCalls[k]) = Len(elements)
        /\ \A i \in DOMAIN elements :
              Count(apCalls[k], ExpectedOutput(i))
                = Cardinality({j \in DOMAIN elements :
                                 ExpectedOutput(j) = ExpectedOutput(i)})

\* a full-size document was delivered after its last element finished first
C15_Witness ==
    /\ Len(apCalls) = 1
    /\ Len(apFired) = MaxElems
    /\ apFired[1] = MaxElems

(***************************************************************************)
(* Lookup specification: a document is drawn, then queried.                *)
(***************************************************************************)
NoRet == [op |-> "none"]

InitFind ==
    /\ elements \in Docs
    /\ ret = NoRet
    /\ ApIdle
    /\ SvIdle
    /\ CtIdle
    /\ OwnIdle

DoFindByType(type, all) ==
    /\ ret' = [op |-> "findByType", type |-> type, all |-> all,
               value |-> FindByType(elements, type, all)]
    /\ UNCHANGED <<elements, ownVars, apVars, svVars, ctVars>>

DoFindById(id) ==
    /\ ret' = [op |-> "findById", id |-> id, value |-> FindById(elements, id)]
    /\ UNCHANGED <<elements, ownVars, apVars, svVars, ctVars>>

NextFind ==
    \/ \E type \in Types, all \in BOOLEAN : DoFindByType(type, all)
    \/ \E id \in QueryIds : DoFindById(id)

SpecFind == InitFind /\ [][NextFind]_vars

(***************************************************************************)
(* Element serialisation (the shape classes are not part of src/): every   *)
(* element turns itself, and a group its children, into a JSON value or an *)
(* XML fragment; the flag drops the transform attribute.                   *)
(***************************************************************************)
RECURSIVE ElemToJSON(_, _)
ElemToJSON(e, matrix) ==
    [json |-> e.type, id |-> e.id, uid |-> e.uid,
     transform |-> IF matrix THEN "omitted" ELSE "matrix",
     childs |-> [k \in DOMAIN e.childs |-> ElemToJSON(e.childs[k], matrix)]]

RECURSIVE ElemToXml(_, _)
ElemToXml(e, matrix) ==
    [tag |-> e.type, id |-> e.id, uid |-> e.uid,
     att |-> IF matrix THEN {"id"} ELSE {"id", "transform"},
     children |-> [k \in DOMAIN e.childs |-> ElemToXml(e.childs[k], matrix)]]

\* the string form of an XML node (xmlbuilder's toString), as a sequence of
\* text pieces: opening tag with its attributes, the children's strings in
\* order, closing tag
RECURSIVE JoinAll(_)
JoinAll(strings) ==
    IF strings = <<>> THEN <<>>
    ELSE JoinAll(SubSeq(strings, 1, Len(strings) - 1)) \o strings[Len(strings)]

RECURSIVE XmlToString(_)
XmlToString(node) ==
    LET head == IF node.tag = "svg"
                THEN <<"<", node.tag, node.att.version, node.att.xmlns, ">">>
                ELSE <<"<", node.tag, ToString(node.uid), node.id>>
                       \o (IF "transform" \in node.att THEN <<"transform">> ELSE <<>>)
                       \o <<">">>
        body == JoinAll([k \in DOMAIN node.children |-> XmlToString(node.children[k])])
    IN head \o body \o <<"</", node.tag, ">">>

\* typeof matrix == 'undefined' -> false
Undefined == "undefined"
MatrixFlags == {Undefined, "true", "false"}
DefaultFlag(matrix) == IF matrix = Undefined THEN FALSE ELSE matrix = "true"

(***************************************************************************)
(* Svg.prototype.toJSON and Svg.prototype.toXml                            *)
(***************************************************************************)
\* puts the new entry in front of the ones already collected
JsonUnshift(json, element, matrix) ==
    [json EXCEPT !.elements = <<ElemToJSON(element, matrix)>> \o @]

\* json.elements.push(element.toJSON(matrix))
JsonPush(json, element, matrix) ==
    [json EXCEPT !.elements = Append(@, ElemToJSON(element, matrix))]

RECURSIVE ToJSONEach(_, _, _)
ToJSONEach(elems, matrix, json) ==
    IF elems = <<>> THEN json
    ELSE ToJSONEach(Tail(elems), matrix, JsonPush(json, Head(elems), matrix))

ToJSON(elems, matrix) == ToJSONEach(elems, DefaultFlag(matrix), [elements |-> <<>>])

\* xml.importXMLBuilder(element.toXml(matrix))
XmlImport(xml, element, matrix) ==
    [xml EXCEPT !.children = Append(@, ElemToXml(element, matrix))]

RECURSIVE ToXmlEach(_, _, _)
ToXmlEach(elems, matrix, xml) ==
    IF elems = <<>> THEN xml
    ELSE ToXmlEach(Tail(elems), matrix, XmlImport(xml, Head(elems), matrix))

ToXml(elems, matrix) ==
    ToXmlEach(elems, DefaultFlag(matrix),
              [tag |-> "svg",
               att |-> [version |-> "1.1", xmlns |-> "http://www.w3.org/2000/svg"],
               children |-> <<>>])

(***************************************************************************)
(* Svg.prototype.toString                                                  *)
(***************************************************************************)
\* the values passed as content: undefined, true, false, the number 1
ContentArgs == {Undefined, "true", "false", "1"}

\* content == true (loose equality: true and 1)
ContentIsTrue(content) == content \in {"true", "1"}

\* the value of matrix after lines 78-79
DefaultedFlag(matrix) == IF matrix = Undefined THEN "false" ELSE matrix

\* puts the element's string in front of the ones already collected
StringPrepend(string, element, matrix) ==
    XmlToString(ElemToXml(element, matrix)) \o string

\* string += element.toXml(matrix).toString()
StringAppend(string, element, matrix) ==
    string \o XmlToString(ElemToXml(element, matrix))

RECURSIVE ToStringEach(_, _, _)
ToStringEach(elems, matrix, string) ==
    IF elems = <<>> THEN string
    ELSE ToStringEach(Tail(elems), matrix, StringAppend(string, Head(elems), matrix))

SvgToString(elems, content, matrix) ==
    IF ContentIsTrue(content)
    THEN XmlToString(ToXml(elems, DefaultedFlag(matrix)))
    ELSE ToStringEach(elems, DefaultFlag(DefaultedFlag(matrix)), <<>>)

(***************************************************************************)
(* Document specification: a document is constructed empty, then filled    *)
(* and serialised.                                                         *)
(***************************************************************************)
InitDoc ==
    /\ elements = <<>>
    /\ ret = NoRet
    /\ ApIdle
    /\ SvIdle
    /\ CtIdle
    /\ OwnIdle

SetElements(arr) ==
    /\ elements' = arr
    /\ ret' = [op |-> "setElements"]
    /\ UNCHANGED <<ownVars, apVars, svVars, ctVars>>

AddElement(element) ==
    /\ Len(elements) < MaxLen
    /\ elements' = Append(elements, element)
    /\ ret' = [op |-> "addElement"]
    /\ UNCHANGED <<ownVars, apVars, svVars, ctVars>>

DoToJSON(matrix) ==
    /\ ret' = [op |-> "toJSON", matrix |-> matrix, value |-> ToJSON(elements, matrix)]
    /\ UNCHANGED <<elements, ownVars, apVars, svVars, ctVars>>

DoToXml(matrix) ==
    /\ ret' = [op |-> "toXml", matrix |-> matrix, value |-> ToXml(elements, matrix)]
    /\ UNCHANGED <<elements, ownVars, apVars, svVars, ctVars>>

DoToString(content, matrix) ==
    /\ ret' = [op |-> "toString", content |-> content, matrix |-> matrix,
               value |-> SvgToString(elements, content, matrix)]
    /\ UNCHANGED <<elements, ownVars, apVars, svVars, ctVars>>

NextDoc ==
    \/ \E arr \in SetPool : SetElements(arr)
    \/ \E element \in AddPool : AddElement(element)
    \/ \E matrix \in MatrixFlags : DoToJSON(matrix)
    \/ \E matrix \in MatrixFlags : DoToXml(matrix)
    \/ \E content \in ContentArgs, matrix \in MatrixFlags : DoToString(content, matrix)

SpecDoc == InitDoc /\ [][NextDoc]_vars

(***************************************************************************)
(* Documents and arrays as objects.  setElements stores the reference it   *)
(* is given, addElement pushes onto the array the document refers to,      *)
(* findByType and applyMatrix fill a document made by new Svg().           *)
(* Ownership specification: two documents are constructed, the caller      *)
(* holds one array and hands it to either.  Frame specification: one       *)
(* populated document is queried, searched and put through applyMatrix,    *)
(* once each, and the documents that come back are added to.               *)
(***************************************************************************)
OwnLeaf == [uid |-> <<0, 1>>, type |-> "rect", id |-> "a", childs |-> <<>>, x |-> 1]
OwnGroup ==
    [uid |-> <<0, 2>>, type |-> "g", id |-> NoId, x |-> 2,
     childs |-> <<[uid |-> <<0, 2, 1>>, type |-> "rect", id |-> "a",
                   childs |-> <<>>, x |-> 2]>>]
OwnPool == {OwnLeaf, OwnGroup}

\* the array the caller holds and passes to setElements
CallerArr == 3
\* the documents the caller constructed itself
Constructed == {1, 2}
\* the document the frame specification queries
Source == 1

\* the new document is given the array of the document it is made from
ResultArrayShared(h, source) == source

\* new Svg(): this.elements = [], an array no other object refers to
ResultArray(h, source) == Len(h) + 1

\* the heap once the array of the new document exists
WithArray(h, a) == IF a > Len(h) THEN Append(h, <<>>) ELSE h

\* the caller holds a reference to document d
Accessible(d) == d \in DOMAIN docs /\ (d # pl.res \/ pl.delivered)

InitOwn ==
    /\ elements = <<>>
    /\ ret = NoRet
    /\ ApIdle
    /\ SvIdle
    /\ CtIdle
    /\ heap \in {<<<<>>, <<>>, arr>> : arr \in SeqsUpTo(OwnPool, MaxOwnLen - 1)}
    /\ docs = <<1, 2>>
    /\ pl = NoPipeline
    /\ found = 0

\* document d: this.elements = elements, the caller's array itself
OwnSetElements(d) ==
    /\ docs' = [docs EXCEPT ![d] = CallerArr]
    /\ ret' = [op |-> "setElements", doc |-> d]
    /\ UNCHANGED <<elements, heap, pl, found, apVars, svVars, ctVars>>

\* document d: this.elements.push(element)
OwnAddElement(d, element) ==
    /\ Accessible(d)
    /\ Len(heap[docs[d]]) < MaxOwnLen
    /\ heap' = [heap EXCEPT ![docs[d]] = Append(@, element)]
    /\ ret' = [op |-> "addElement", doc |-> d]
    /\ UNCHANGED <<elements, docs, pl, found, apVars, svVars, ctVars>>

OwnToJSON(d, matrix) ==
    /\ ret' = [op |-> "toJSON", doc |-> d, value |-> ToJSON(heap[docs[d]], matrix)]
    /\ UNCHANGED <<elements, ownVars, apVars, svVars, ctVars>>

OwnToXml(d, matrix) ==
    /\ ret' = [op |-> "toXml", doc |-> d, value |-> ToXml(heap[docs[d]], matrix)]
    /\ UNCHANGED <<elements, ownVars, apVars, svVars, ctVars>>

OwnToString(d, content, matrix) ==
    /\ ret' = [op |-> "toString", doc |-> d,
               value |-> SvgToString(heap[docs[d]], content, matrix)]
    /\ UNCHANGED <<elements, ownVars, apVars, svVars, ctVars>>

OwnFindById(d, id) ==
    /\ ret' = [op |-> "findById", doc |-> d, value |-> FindById(heap[docs[d]], id)]
    /\ UNCHANGED <<elements, ownVars, apVars, svVars, ctVars>>

\* findByType on document d: new Svg(), then one addElement per element found
OwnFindByType(d, type, all) ==
    /\ found = 0
    /\ LET a == ResultArray(heap, docs[d])
           h == WithArray(heap, a)
       IN /\ heap' = [h EXCEPT ![a] = @ \o FindByType(heap[docs[d]], type, all)]
          /\ docs' = Append(docs, a)
    /\ found' = Len(docs) + 1
    /\ ret' = [op |-> "findByType", doc |-> d, result |-> Len(docs) + 1]
    /\ UNCHANGED <<elements, pl, apVars, svVars, ctVars>>

\* applyMatrix(null, callback) on document d: new Svg(), then async.each
\* over the array of d; an empty array is delivered at once
OwnApplyMatrix(d) ==
    /\ pl = NoPipeline
    /\ LET a == ResultArray(heap, docs[d])
       IN /\ heap' = WithArray(heap, a)
          /\ docs' = Append(docs, a)
    /\ pl' = [src |-> docs[d], res |-> Len(docs) + 1,
              pending |-> DOMAIN heap[docs[d]], completed |-> 0,
              delivered |-> (Len(heap[docs[d]]) = 0)]
    /\ ret' = [op |-> "applyMatrix", doc |-> d, result |-> Len(docs) + 1]
    /\ UNCHANGED <<elements, found, apVars, svVars, ctVars>>

\* the callback of elem.applyMatrix for element i of the pipeline:
\* svg.addElement(e); c(); done() compares the counter with arr.length
OwnApplyCallback(i) ==
    /\ pl # NoPipeline
    /\ i \in pl.pending
    /\ LET elem == heap[pl.src][i]
           e == ElemApplyMatrix(elem, HandedMatrix(BaseMatrix([kind |-> "null"]), elem))
       IN heap' = [heap EXCEPT ![docs[pl.res]] = ResultAdd(@, e)]
    /\ pl' = [pl EXCEPT !.pending = @ \ {i},
                        !.completed = @ + 1,
                        !.delivered = @ \/ EachDone(pl.completed + 1, Len(heap'[pl.src]))]
    /\ ret' = [op |-> "applyMatrix callback", doc |-> pl.res]
    /\ UNCHANGED <<elements, docs, found, apVars, svVars, ctVars>>

NextOwn ==
    \/ \E d \in Constructed : OwnSetElements(d)
    \/ \E d \in DOMAIN docs, element \in OwnPool : OwnAddElement(d, element)

SpecOwn == InitOwn /\ [][NextOwn]_vars

InitFrame ==
    /\ elements = <<>>
    /\ ret = NoRet
    /\ ApIdle
    /\ SvIdle
    /\ CtIdle
    /\ heap \in {<<arr>> : arr \in SeqsUpTo(OwnPool, MaxOwnLen)}
    /\ docs = <<1>>
    /\ pl = NoPipeline
    /\ found = 0

\* the arguments the frame specification passes to the serialisers
FrameFlags == {Undefined, "true"}
FrameContents == {"true", "false"}

NextFrame ==
    \/ \E matrix \in FrameFlags : OwnToJSON(Source, matrix)
    \/ \E matrix \in FrameFlags : OwnToXml(Source, matrix)
    \/ \E content \in FrameContents : OwnToString(Source, content, Undefined)
    \/ \E id \in QueryIds : OwnFindById(Source, id)
    \/ \E type \in Types, all \in BOOLEAN : OwnFindByType(Source, type, all)
    \/ OwnApplyMatrix(Source)
    \/ \E i \in 1..MaxOwnLen : OwnApplyCallback(i)
    \/ \E d \in DOMAIN docs : OwnAddElement(d, OwnLeaf)

SpecFrame == InitFrame /\ [][NextFrame]_vars

(***************************************************************************)
(* Ownership and frame properties                                          *)
(***************************************************************************)
\* the operations that are to leave their source alone
FrameOps ==
    {"toJSON", "toXml", "toString", "findById", "findByType", "applyMatrix",
     "applyMatrix callback"}

\* C16: toJSON, toXml, toString, findById, findByType and every step of
\* applyMatrix leave the source document's element sequence as it was
\* (same array, same length, same elements in the same order); findByType
\* and applyMatrix return a document made anew, whose array no other
\* document refers to; the elements of a findByType result are elements of
\* the source themselves.
C16_SourceUnchanged ==
    [][ret'.op \in FrameOps =>
          /\ docs'[Source] = docs[Source]
          /\ heap'[docs[Source]] = heap[docs[Source]]
          /\ ret'.op \in {"findByType", "applyMatrix"} =>
                /\ ret'.result = Len(docs) + 1
                /\ Len(docs') = Len(docs) + 1
                /\ docs'[ret'.result] \notin DOMAIN heap
                /\ \A d \in DOMAIN docs : docs'[d] # docs'[ret'.result]
          /\ ret'.op = "findByType" =>
                \A p \in DOMAIN heap'[docs'[ret'.result]] :
                    heap'[docs'[ret'.result]][p] \in NodesOf(heap[docs[Source]])]_vars

\* findByType has returned an element from inside a group of the source and
\* applyMatrix has delivered a document with at least one element
C16_Witness ==
    /\ found # 0
    /\ \E p \in DOMAIN heap[docs[found]] : Len(heap[docs[found]][p].uid) = 3
    /\ pl.delivered
    /\ pl.completed >= 1

\* C17: an addElement call on a document changes the element sequence of
\* that document only: the array the caller once passed to setElements and
\* the sequence of every other document stay as they were.
C17_ExclusiveOwnership ==
    [][(ret'.op = "addElement" /\ heap' # heap) =>
          /\ heap'[CallerArr] = heap[CallerArr]
          /\ \A o \in DOMAIN docs \ {ret'.doc} :
                heap'[docs[o]] = heap[docs[o]]]_vars

(***************************************************************************)
(* Document properties                                                     *)
(***************************************************************************)
\* C5: after any sequence of setElements and addElement calls,
\* toJSON().elements is as long as the owned sequence and its i-th entry is
\* the i-th owned element's toJSON result; toXml imports the elements'
\* fragments in that same order.
C5_OrderPreserved ==
    /\ ret.op = "toJSON" =>
          /\ Len(ret.value.elements) = Len(elements)
          /\ \A i \in DOMAIN elements :
                ret.value.elements[i] = ElemToJSON(elements[i], DefaultFlag(ret.matrix))
    /\ ret.op = "toXml" =>
          /\ Len(ret.value.children) = Len(elements)
          /\ \A i \in DOMAIN elements :
                ret.value.children[i] = ElemToXml(elements[i], DefaultFlag(ret.matrix))

\* a document built by setElements and then addElement, holding distinct
\* elements, has been serialised
C5_Witness ==
    /\ ret.op = "toJSON"
    /\ Len(elements) = MaxLen
    /\ elements[1] # elements[MaxLen]
    /\ \E i \in DOMAIN elements : Head(elements[i].uid) = 0
    /\ \E i \in DOMAIN elements : Head(elements[i].uid) # 0

\* C12: toString(true, m) is the string form of toXml(m); toString(false, m)
\* is the plain concatenation, in sequence order, of every element's
\* toXml(m).toString(), with no wrapping tag and the empty string for an
\* empty document; an omitted m counts as false and every element gets the
\* same flag.
C12_ToStringAsymmetry ==
    ret.op = "toString" =>
        /\ ret.content = "true" => ret.value = XmlToString(ToXml(elements, ret.matrix))
        /\ ret.content = "false" =>
              /\ ret.value = JoinAll([i \in DOMAIN elements |->
                                XmlToString(ElemToXml(elements[i], DefaultFlag(ret.matrix)))])
              /\ elements = <<>> => ret.value = <<>>
              /\ ret.value # XmlToString(ToXml(elements, ret.matrix))
        /\ ret.matrix = Undefined =>
              ret.value = SvgToString(elements, ret.content, "false")

\* toString(false) of a document of MaxLen elements, the first and the last
\* with different strings
C12_Witness ==
    /\ ret.op = "toString"
    /\ ret.content = "false"
    /\ ret.matrix = Undefined
    /\ Len(elements) = MaxLen
    /\ XmlToString(ElemToXml(elements[1], FALSE))
          # XmlToString(ElemToXml(elements[MaxLen], FALSE))

(***************************************************************************)
(* Lookup properties                                                       *)
(***************************************************************************)
IsTop(e) == Len(e.uid) = 1
TopIndex(e) == Head(e.uid)

UniqueIds(es) ==
    \A n1, n2 \in NodesOf(es) : (n1.id # NoId /\ n1.id = n2.id) => n1 = n2

TopMatches(es, id) == {k \in DOMAIN es : es[k].id = id}

\* C1: with unique ids in the whole tree, findById(x) returns the element
\* whose id is x wherever it sits, and null when no element has id x.
C1_FindByIdUnique ==
    (ret.op = "findById" /\ UniqueIds(elements)) =>
        IF \E n \in NodesOf(elements) : n.id = ret.id
        THEN ret.value \in {n \in NodesOf(elements) : n.id = ret.id}
        ELSE ret.value = Null

\* C6: when several top-level elements carry the searched id, findById
\* returns the first of them in sequence order.
C6_FindByIdFirstDuplicate ==
    (ret.op = "findById" /\ Cardinality(TopMatches(elements, ret.id)) >= 2) =>
        ret.value = elements[CHOOSE k \in TopMatches(elements, ret.id) :
                               \A j \in TopMatches(elements, ret.id) : k <= j]

\* the top-level positions that assign returnElem
Deciders(es, id) == {k \in DOMAIN es : es[k].id = id \/ es[k].type = "g"}
LastOf(S) == CHOOSE k \in S : \A j \in S : j <= k

\* C18: the result of findById is decided by the last top-level element
\* that is a direct id match or a group: that element if it matches,
\* otherwise what that group's own findById returns; null when no top-level
\* element is a match or a group.
C18_LastDeciderWins ==
    ret.op = "findById" =>
        IF Deciders(elements, ret.id) = {} THEN ret.value = Null
        ELSE LET last == elements[LastOf(Deciders(elements, ret.id))]
             IN ret.value = IF last.id = ret.id THEN last
                            ELSE GroupFindById(last, ret.id)

\* a top-level match is followed by a group without a match: null
C18_Witness ==
    /\ ret.op = "findById"
    /\ ret.value = Null
    /\ TopMatches(elements, ret.id) # {}
    /\ \E n \in NodesOf(elements) : ~IsTop(n) /\ n.id = ret.id

\* C2 as stated: with all = true every top-level match precedes every match
\* discovered inside a group.
C2_TopLevelFirst ==
    (ret.op = "findByType" /\ ret.all) =>
        \A p, q \in DOMAIN ret.value :
            (IsTop(ret.value[p]) /\ ~IsTop(ret.value[q])) => p < q

\* C2 amended: with all = true the result is ordered by top-level position:
\* it holds, for each top-level element in sequence order, that element if
\* its type matches, followed by the matches its own findByType reports if
\* it is a group; so what is found inside a group comes right after the
\* group's place and before anything contributed by later top-level
\* elements.
C2_DocumentOrder ==
    (ret.op = "findByType" /\ ret.all) =>
        /\ \A p, q \in DOMAIN ret.value :
              p < q =>
                /\ TopIndex(ret.value[p]) <= TopIndex(ret.value[q])
                /\ TopIndex(ret.value[p]) = TopIndex(ret.value[q]) => ~IsTop(ret.value[q])
        /\ SelectSeq(ret.value, IsTop) = SelectSeq(elements, LAMBDA e : e.type = ret.type)
        /\ \A i \in DOMAIN elements :
              SelectSeq(ret.value, LAMBDA e : ~IsTop(e) /\ TopIndex(e) = i)
                = IF elements[i].type = "g"
                  THEN GroupFindByType(elements[i], ret.type, TRUE)
                  ELSE <<>>

\* a top-level match, then a nested match, then a later top-level match
C2_Witness ==
    /\ ret.op = "findByType" /\ ret.all
    /\ \E p, q, r \in DOMAIN ret.value :
          /\ p < q /\ q < r
          /\ IsTop(ret.value[p]) /\ ~IsTop(ret.value[q]) /\ IsTop(ret.value[r])

\* C7: with all = false the result is exactly the top-level elements of the
\* requested type, in their original relative order, and holds no element
\* that lives inside a group.
C7_TopLevelOnly ==
    (ret.op = "findByType" /\ ~ret.all) =>
        /\ ret.value = SelectSeq(elements, LAMBDA e : e.type = ret.type)
        /\ \A p \in DOMAIN ret.value : IsTop(ret.value[p])

\* two top-level matches returned while a nested element of the same type
\* exists and is left out
C7_Witness ==
    /\ ret.op = "findByType" /\ ~ret.all
    /\ Len(ret.value) >= 2
    /\ \E n \in NodesOf(elements) : ~IsTop(n) /\ n.type = ret.type

====
